---- MODULE Spec2Model ----
(***************************************************************************)
(* A model of playbook-converter.py: GraphSequenceTransformer turns a      *)
(* branching task graph into a nested "structured sequence".               *)
(*                                                                         *)
(* Python values are modelled by tagged records:                           *)
(*   str  (a node id used as a Leaf)  [t |-> "str",  id    |-> n]          *)
(*   list (an Ordered Sequence)       [t |-> "list", items |-> <<...>>]    *)
(*   dict (Labeled Branches)          [t |-> "dict", items |-> <<[k, v]>>] *)
(* A dict keeps its insertion order, so it is a sequence of key/value      *)
(* records with distinct keys.                                             *)
(*                                                                         *)
(* A call of a Python function either returns or raises; every operator    *)
(* that models one returns a record whose field st is "ok" (or, for one    *)
(* turn of the while loop, "continue" / "break") or the exception's name.  *)
(***************************************************************************)
EXTENDS Integers, Sequences, FiniteSets, TLC

\* ------------------------------------------------------------------ bounds
NumNodes == 4
CycNodes == 3
MaxCalls == 2

\* Room of the top-level frame's parts list that the model tracks.  One turn
\* of the loop appends at most two elements and, on an acyclic graph, no node
\* is the current node twice, so an acyclic run never fills it.
PartsCap == 2 * NumNodes + 2

\* The interpreter's recursion limit, scaled to the model: deeper than any
\* path of an acyclic graph of the model, so only a cycle reaches it.
RecursionLimit == NumNodes + CycNodes

\* ------------------------------------------------------ Python's constants
None == 0
\* The lru_cache key of a call that leaves stop to its default: the cache
\* keys on the arguments as passed, so f(n) and f(n, None) are two entries.
Omitted == -1

\* ------------------------------------------------------------ value shapes
Leaf(n) == [t |-> "str", id |-> n]
List(s) == [t |-> "list", items |-> s]
Dict(s) == [t |-> "dict", items |-> s]

\* ------------------------------------------------------------------ graphs
\* Node.next_nodes: an ordered mapping label -> list of successor ids.
Branch(k, v) == [k |-> k, v |-> v]

RECURSIVE Chain(_)
Chain(ss) == IF Len(ss) = 0 THEN <<>> ELSE Head(ss) \o Chain(Tail(ss))

\* Node.get_next_nodes_flat
get_next_nodes_flat(next_nodes) ==
    Chain([i \in 1..Len(next_nodes) |-> next_nodes[i].v])

\* The shapes of next_nodes the model draws from, with targets in T:
\* a terminal, one label with one or two targets (in either order), two
\* labels with one target each, and two labels of which the first has two
\* targets.
OneOrTwo(T) == {<<a>> : a \in T} \cup {<<a, b>> : <<a, b>> \in {p \in T \X T : p[1] # p[2]}}

PlainShapes(T) ==
    {<<>>}
    \cup {<<Branch("", v)>> : v \in OneOrTwo(T)}
    \cup {<<Branch("yes", <<a>>), Branch("no", <<b>>)>> : <<a, b>> \in T \X T}

NextNodesShapes(T) ==
    PlainShapes(T)
    \cup {<<Branch("yes", <<a, b>>), Branch("no", <<c>>)>> :
              <<a, b, c>> \in {p \in T \X T \X T : p[1] < p[2]}}

\* The successors of node n, as a set.
Successors(g, n) ==
    UNION {{g[n][b].v[i] : i \in 1..Len(g[n][b].v)} : b \in 1..Len(g[n])}

\* The nodes a path of zero or more links leads to from the nodes of S: S
\* and what the nodes of New (those of S not yet looked at) lead to.
RECURSIVE Closure(_, _, _)
Closure(g, S, New) ==
    IF New = {} THEN S
    ELSE Closure(g, S \cup UNION {Successors(g, m) : m \in New},
                 (UNION {Successors(g, m) : m \in New}) \ S)

ReachableFrom(g, S) == Closure(g, S, S)

\* The playbook's starttaskid.
Start == 1

\* The graph is the part of the playbook the start node reaches.
Connected(g) == ReachableFrom(g, {Start}) = DOMAIN g

\* Acyclic graphs: node i only links to higher-numbered nodes (a topological
\* numbering, which every finite acyclic graph has).  GraphsFrom(i) is the
\* list of next_nodes of the nodes i..NumNodes.
RECURSIVE GraphsFrom(_)
GraphsFrom(i) ==
    IF i > NumNodes THEN {<<>>}
    ELSE {<<s>> \o g : <<s, g>> \in NextNodesShapes((i + 1)..NumNodes) \X GraphsFrom(i + 1)}

DagGraphs == {g \in GraphsFrom(1) : Connected(g)}

\* Arbitrary graphs on the nodes 1..N, cycles and self-loops included.
AnyGraphs(N) == {g \in [1..N -> PlainShapes(1..N)] : Connected(g)}

\* ------------------------------------------------- _get_node_depths (113)
Max(a, b) == IF a >= b THEN a ELSE b

\* {n: depth, **depths}: the later entry wins when n is a key of depths.
WithNode(n, depth, depths) ==
    [k \in DOMAIN depths \cup {n} |-> IF k \in DOMAIN depths THEN depths[k] ELSE depth]

\* One depth map per path from n to a terminal.  The lru_cache around it
\* caches a function of its arguments only and is left out.  A call deeper
\* than the recursion limit raises RecursionError, which nothing catches.
Depths(maps) == [st |-> "ok", maps |-> maps]

DepthsRaised == [st |-> "RecursionError", maps |-> <<>>]

\* Line 121 for every depth map of one successor.
RECURSIVE WithNodeEach(_, _, _)
WithNodeEach(n, depth, maps) ==
    IF Len(maps) = 0 THEN <<>>
    ELSE <<WithNode(n, depth, Head(maps))>> \o WithNodeEach(n, depth, Tail(maps))

\* Lines 119-121 when the call for the first successor came back with sub
\* and the loop over the other successors with rest.
DepthsJoin(n, depth, sub0, rest0) ==
    LET sub == sub0 IN
    LET rest == rest0 IN
    IF sub.st # "ok" THEN DepthsRaised
    ELSE IF rest.st # "ok" THEN DepthsRaised
    ELSE Depths(WithNodeEach(n, depth, sub.maps) \o rest.maps)

RECURSIVE _get_node_depths(_, _, _)
RECURSIVE DepthsLoop(_, _, _, _)

\* Lines 119-121 with line 120 passing depth on unchanged.
DepthsLoopSameDepth(g, n, depth, next) ==
    IF Len(next) = 0 THEN Depths(<<>>)
    ELSE DepthsJoin(n, depth, _get_node_depths(g, Head(next), depth),
                    DepthsLoop(g, n, depth, Tail(next)))

\* Lines 119-121: the loop over the successors next.
DepthsLoop(g, n, depth, next) ==
    IF Len(next) = 0 THEN Depths(<<>>)
    ELSE DepthsJoin(n, depth, _get_node_depths(g, Head(next), depth + 1),
                    DepthsLoop(g, n, depth, Tail(next)))

_get_node_depths(g, n, depth) ==
    IF depth > RecursionLimit THEN DepthsRaised
    ELSE IF Len(g[n]) = 0 THEN Depths(<<[k \in {n} |-> depth]>>)
    ELSE DepthsLoop(g, n, depth, get_next_nodes_flat(g[n]))

\* ---------------------------------------------- _get_first_common_node (92)
\* One turn of "for depths2 in depths" (lines 96-102).
MergeDepths(common, depths2) ==
    IF DOMAIN common = {} THEN depths2
    ELSE [k \in DOMAIN common \cap DOMAIN depths2 |-> Max(common[k], depths2[k])]

RECURSIVE CommonOf(_, _)
CommonOf(common, depths) ==
    IF Len(depths) = 0 THEN common
    ELSE CommonOf(MergeDepths(common, Head(depths)), Tail(depths))

\* Line 107 with the comparison turned round: the keys of greatest depth.
ArgminCandidatesDeepest(common) ==
    {k \in DOMAIN common :
        /\ common[k] # 0
        /\ \A k2 \in DOMAIN common : common[k2] # 0 => common[k] >= common[k2]}

\* The keys the argmin loop (lines 103-110) can end on.  It replaces argmin
\* only by a key of strictly smaller depth, so it ends on the key of least
\* non-zero depth that it meets first; the loop meets the keys in the
\* iteration order of a dict built from a set intersection, which the
\* language does not fix.
ArgminCandidates(common) ==
    {k \in DOMAIN common :
        /\ common[k] # 0
        /\ \A k2 \in DOMAIN common : common[k2] # 0 => common[k] <= common[k2]}

Argmin(common) ==
    IF ArgminCandidates(common) = {} THEN None
    ELSE CHOOSE k \in ArgminCandidates(common) : TRUE

\* Lines 94-111 on the depth maps of line 93.
FirstCommonOf(depths0) ==
    LET depths == depths0 IN
    IF depths.st # "ok" THEN [st |-> depths.st, n |-> None]
    ELSE [st |-> "ok", n |-> Argmin(CommonOf(<<>>, depths.maps))]

_get_first_common_node(g, n) == FirstCommonOf(_get_node_depths(g, n, 0))

\* -------------------------------------------- _transform_graph_sequence (45)
\* The lru_cache of _transform_graph_sequence is a mapping from the call's
\* arguments <<n, stop>> to the list it returned; a call that raised leaves
\* no entry.  Every operator below takes the cache c and hands back the cache
\* as the call left it.
\* A cache keyed by n alone.
CacheKeyWithoutStop(n, stop) == <<n, Omitted>>

CacheKey(n, stop) == <<n, stop>>

CachePut(c, key, val) ==
    [k \in DOMAIN c \cup {key} |-> IF k = key THEN val ELSE c[k]]

Raised(st, c) == [st |-> st, n |-> None, parts |-> <<>>, val |-> List(<<>>), vals |-> <<>>, c |-> c]

Returned(val, c) == [st |-> "ok", val |-> val, c |-> c]

Collected(vals, c) == [st |-> "ok", vals |-> vals, c |-> c]

\* val in front of the values rest collected, unless a call of rest raised.
Prepend(val, rest0) ==
    LET rest == rest0 IN
    IF rest.st # "ok" THEN rest ELSE Collected(<<val>> \o rest.vals, rest.c)

RECURSIVE _transform_graph_sequence(_, _, _, _, _)
RECURSIVE WhileTrue(_, _, _, _, _)
RECURSIVE Comprehension(_, _, _, _, _)
RECURSIVE Paths(_, _, _, _, _)
RECURSIVE Parts2(_, _, _, _, _, _)

\* Lines 63-67: [self._transform_graph_sequence(n2, n) for n2 in next_nodes
\* if n2 != stop], the calls made left to right; j is the n of line 62 and r
\* the outcome of the call for the first of next_nodes.
ComprehensionAfter(g, r0, next_nodes, j, stop) ==
    LET r == r0 IN
    IF r.st # "ok" THEN Raised(r.st, r.c)
    ELSE Prepend(r.val, Comprehension(g, r.c, Tail(next_nodes), j, stop))

Comprehension(g, c, next_nodes, j, stop) ==
    IF Len(next_nodes) = 0 THEN Collected(<<>>, c)
    ELSE IF Head(next_nodes) = stop THEN Comprehension(g, c, Tail(next_nodes), j, stop)
    ELSE ComprehensionAfter(g,
            _transform_graph_sequence(g, c, Head(next_nodes), j, CacheKey(Head(next_nodes), j)),
            next_nodes, j, stop)

\* Lines 74-81: the paths of one label's targets v; r is the outcome for
\* the first of v.
PathsAfter(g, r0, v, j, stop) ==
    LET r == r0 IN
    IF r.st # "ok" THEN Raised(r.st, r.c)
    ELSE Prepend(r.val, Paths(g, r.c, Tail(v), j, stop))

Paths(g, c, v, j, stop) ==
    IF Len(v) = 0 THEN Collected(<<>>, c)
    ELSE IF Head(v) = stop THEN Paths(g, c, Tail(v), j, stop)
    ELSE IF Head(v) = j THEN PathsAfter(g, Returned(List(<<>>), c), v, j, stop)
    ELSE PathsAfter(g, _transform_graph_sequence(g, c, Head(v), j, CacheKey(Head(v), j)),
                    v, j, stop)

\* Lines 82-85 without the case of a single path.
LabelEntryAlwaysList(k, paths) ==
    IF Len(paths) >= 1 THEN <<Branch(k, List(paths))>> ELSE <<>>

\* Lines 82-85: what a label with these paths adds to parts2.
LabelEntry(k, paths) ==
    IF Len(paths) = 1 THEN <<Branch(k, paths[1])>>
    ELSE IF Len(paths) > 1 THEN <<Branch(k, List(paths))>>
    ELSE <<>>

\* The entries of rest with label k's entry in front.
WithLabel(k, paths, rest0) ==
    LET rest == rest0 IN
    IF rest.st # "ok" THEN rest
    ELSE Collected(LabelEntry(k, paths) \o rest.vals, rest.c)

\* Lines 72-85: parts2, built over node.next_nodes.items() from item i on;
\* paths is the outcome of item i's inner loop.
Parts2After(g, paths0, next_nodes, i, j, stop) ==
    LET paths == paths0 IN
    IF paths.st # "ok" THEN paths
    ELSE WithLabel(next_nodes[i].k, paths.vals, Parts2(g, paths.c, next_nodes, i + 1, j, stop))

Parts2(g, c, next_nodes, i, j, stop) ==
    IF i > Len(next_nodes) THEN Collected(<<>>, c)
    ELSE Parts2After(g, Paths(g, c, next_nodes[i].v, j, stop), next_nodes, i, j, stop)

\* The outcome of one turn of the while loop: st is "continue" (the loop
\* goes round again with this n and parts), "break", or an exception's name.
Turned(st, n, parts, c) == [st |-> st, n |-> n, parts |-> parts, c |-> c]

\* Lines 54-59, next the only successor.
TurnLinear(c, next, stop, parts) ==
    IF next = stop THEN Turned("break", next, parts, c)
    ELSE Turned("continue", next, Append(parts, Leaf(next)), c)

\* Lines 63-67 after the comprehension r: the list is appended and the loop
\* goes round again with n = j, whatever j is.
TurnFanOut(r0, j, parts) ==
    LET r == r0 IN
    IF r.st # "ok" THEN Raised(r.st, r.c)
    ELSE Turned("continue", j, Append(parts, List(r.vals)), r.c)

\* Lines 86-89 with line 87 testing n is None only.
TurnLabeledPastStop(r0, j, stop, parts) ==
    LET r == r0 IN
    IF r.st # "ok" THEN Raised(r.st, r.c)
    ELSE IF j = None THEN Turned("break", j, Append(parts, Dict(r.vals)), r.c)
    ELSE Turned("continue", j, Append(Append(parts, Dict(r.vals)), Leaf(j)), r.c)

\* Lines 86-89 after parts2 r.
TurnLabeled(r0, j, stop, parts) ==
    LET r == r0 IN
    IF r.st # "ok" THEN Raised(r.st, r.c)
    ELSE IF j = None \/ j = stop THEN Turned("break", j, Append(parts, Dict(r.vals)), r.c)
    ELSE Turned("continue", j, Append(Append(parts, Dict(r.vals)), Leaf(j)), r.c)

\* Lines 60-89 of a turn at a node with several successors; j is the outcome
\* of _get_first_common_node(n).
TurnDiverging(g, c, node, j0, stop, parts) ==
    LET j == j0 IN
    IF j.st # "ok" THEN Raised(j.st, c)
    ELSE IF Len(node) = 1
    THEN TurnFanOut(Comprehension(g, c, get_next_nodes_flat(node), j.n, stop), j.n, parts)
    ELSE TurnLabeled(Parts2(g, c, node, 1, j.n, stop), j.n, stop, parts)

\* One turn of the while loop (lines 50-89) with current node n.
Turn(g, c, n, stop, parts) ==
    IF n \notin DOMAIN g THEN Raised("KeyError", c)
    ELSE IF Len(get_next_nodes_flat(g[n])) = 0 THEN Turned("break", n, parts, c)
    ELSE IF Len(get_next_nodes_flat(g[n])) = 1
    THEN TurnLinear(c, get_next_nodes_flat(g[n])[1], stop, parts)
    ELSE TurnDiverging(g, c, g[n], _get_first_common_node(g, n), stop, parts)

\* The while loop from the outcome r of a turn on: run to its break or to
\* the exception that ends it.
WhileTrueAfter(g, r0, stop) ==
    LET r == r0 IN
    IF r.st = "continue" THEN WhileTrue(g, r.c, r.n, stop, r.parts) ELSE r

WhileTrue(g, c, n, stop, parts) == WhileTrueAfter(g, Turn(g, c, n, stop, parts), stop)

\* Line 90 and the cache's bookkeeping; r is how the loop ended.
Return(r0, key) ==
    LET r == r0 IN
    IF r.st # "break" THEN Raised(r.st, r.c)
    ELSE Returned(List(r.parts), CachePut(r.c, key, List(r.parts)))

\* A call _transform_graph_sequence(n, stop) under the cache key its
\* arguments make: the cached list on a hit, else the body (lines 47-90) and
\* a new cache entry.
_transform_graph_sequence(g, c, n, stop, key) ==
    IF key \in DOMAIN c THEN Returned(c[key], c)
    ELSE Return(WhileTrue(g, c, n, stop, <<Leaf(n)>>), key)

EmptyCache == [k \in {} |-> List(<<>>)]

\* ------------------------------------------------------------- the program
\* A GraphSequenceTransformer over the graph nodes, and the top-level call
\* transform(start_node) it is running, one turn of the while loop at a time.
VARIABLES
    nodes,      \* self._nodes: node id -> next_nodes
    cache,      \* the lru_cache of _transform_graph_sequence
    pc,         \* "idle", "loop" (inside transform), "done" (returned), "error" (raised)
    arg,        \* start_node.node_id of the call in progress or last made
    n,          \* the top-level frame's n
    parts,      \* the top-level frame's parts (its first PartsCap elements)
    ret,        \* what the last call returned
    err,        \* the exception the last call raised, "" if none
    call        \* how many calls of transform were made

vars == <<nodes, cache, pc, arg, n, parts, ret, err, call>>

Nodes == DOMAIN nodes

InitWith(graphs) ==
    /\ nodes \in graphs
    /\ cache = EmptyCache
    /\ pc = "idle"
    /\ arg = None
    /\ n = None
    /\ parts = <<>>
    /\ ret = List(<<>>)
    /\ err = ""
    /\ call = 0

Init == InitWith(DagGraphs)

InitAny == InitWith(AnyGraphs(CycNodes))

Cap(s) == IF Len(s) > PartsCap THEN SubSeq(s, 1, PartsCap) ELSE s

\* transform(start_node), line 43: the call _transform_graph_sequence(s) is
\* answered from the cache ...
CacheHit ==
    /\ pc # "loop"
    /\ call < MaxCalls
    /\ CacheKey(Start, Omitted) \in DOMAIN cache
    /\ pc' = "done"
    /\ arg' = Start
    /\ ret' = cache[CacheKey(Start, Omitted)]
    /\ err' = ""
    /\ call' = call + 1
    /\ UNCHANGED <<nodes, cache, n, parts>>

\* ... or enters the body: lines 47-48.
CacheMiss ==
    /\ pc # "loop"
    /\ call < MaxCalls
    /\ CacheKey(Start, Omitted) \notin DOMAIN cache
    /\ pc' = "loop"
    /\ arg' = Start
    /\ n' = Start
    /\ parts' = <<Leaf(Start)>>
    /\ err' = ""
    /\ call' = call + 1
    /\ UNCHANGED <<nodes, cache, ret>>

\* What a turn of the loop does to the top-level frame: go round again,
\* return parts (line 90) and cache it, or let the exception out.
Frame(r0) ==
    LET r == r0 IN
    /\ cache' = Return(r, CacheKey(arg, Omitted)).c
    /\ pc' = IF r.st = "continue" THEN "loop" ELSE IF r.st = "break" THEN "done" ELSE "error"
    /\ n' = r.n
    /\ parts' = Cap(r.parts)
    /\ ret' = IF r.st = "break" THEN Return(r, CacheKey(arg, Omitted)).val ELSE ret
    /\ err' = IF r.st \in {"continue", "break"} THEN "" ELSE r.st
    /\ UNCHANGED <<nodes, arg, call>>

\* Line 50 with n = None: self._nodes[None].
LookupFails ==
    /\ pc = "loop"
    /\ n \notin Nodes
    /\ Frame(Turn(nodes, cache, n, None, parts))

\* Lines 52-53.
Terminal ==
    /\ pc = "loop"
    /\ n \in Nodes
    /\ Len(get_next_nodes_flat(nodes[n])) = 0
    /\ Frame(Turn(nodes, cache, n, None, parts))

\* Lines 54-59.
Linear ==
    /\ pc = "loop"
    /\ n \in Nodes
    /\ Len(get_next_nodes_flat(nodes[n])) = 1
    /\ Frame(Turn(nodes, cache, n, None, parts))

\* Lines 60-67.
FanOut ==
    /\ pc = "loop"
    /\ n \in Nodes
    /\ Len(get_next_nodes_flat(nodes[n])) > 1
    /\ Len(nodes[n]) = 1
    /\ Frame(Turn(nodes, cache, n, None, parts))

\* Lines 68-89.
Labeled ==
    /\ pc = "loop"
    /\ n \in Nodes
    /\ Len(get_next_nodes_flat(nodes[n])) > 1
    /\ Len(nodes[n]) > 1
    /\ Frame(Turn(nodes, cache, n, None, parts))

Next ==
    \/ CacheHit
    \/ CacheMiss
    \/ LookupFails
    \/ Terminal
    \/ Linear
    \/ FanOut
    \/ Labeled

Spec == Init /\ [][Next]_vars

\* Lines 54-59 call nothing that could block: a turn at a node with one
\* successor is always completed, and the loop goes round again.
SpecAny == InitAny /\ [][Next]_vars /\ WF_vars(Linear)

\* ---------------------------------------------------------------------
\* What the claims speak of.

\* The node ids a structured sequence holds as Leaves, over all nesting
\* levels, in order.
RECURSIVE LeavesOf(_)
RECURSIVE LeavesOfAll(_)
LeavesOf(v) ==
    IF v.t = "str" THEN <<v.id>>
    ELSE IF v.t = "list" THEN LeavesOfAll(v.items)
    ELSE LeavesOfAll([i \in 1..Len(v.items) |-> v.items[i].v])

LeavesOfAll(s) ==
    IF Len(s) = 0 THEN <<>> ELSE LeavesOf(Head(s)) \o LeavesOfAll(Tail(s))

LeafSet(v) == {LeavesOf(v)[i] : i \in 1..Len(LeavesOf(v))}

Diverging(g, m) == Len(get_next_nodes_flat(g[m])) > 1

IsTerminal(g, m) == Len(g[m]) = 0

\* The nodes reachable from m on paths that never enter x: S and what the
\* nodes of New lead to.
RECURSIVE ClosureAvoiding(_, _, _, _)
ClosureAvoiding(g, S, New, x) ==
    IF New = {} THEN S
    ELSE ClosureAvoiding(g, S \cup ((UNION {Successors(g, m) : m \in New}) \ {x}),
                         (UNION {Successors(g, m) : m \in New}) \ (S \cup {x}), x)

ReachableAvoiding(g, m, x) == ClosureAvoiding(g, {m}, {m}, x)

\* The nodes that lie on every path from m to a terminal: without such a
\* node, no terminal is reached from m.
AllOnEveryPath(g, m) ==
    {x \in ReachableFrom(g, {m}) \ {m} :
        \A t \in ReachableAvoiding(g, m, x) : ~IsTerminal(g, t)}

OnEveryPath(g, m, x) == x \in AllOnEveryPath(g, m)

\* The merged depth map of lines 94-102 for node m.
CommonDepths(g, m) == CommonOf(<<>>, _get_node_depths(g, m, 0).maps)

\* The value a call with this cache key returns when the cache is empty.
StopOf(key) == IF key[2] = Omitted THEN None ELSE key[2]

Fresh(g, key) == _transform_graph_sequence(g, EmptyCache, key[1], StopOf(key), key)

\* The join the resolver gives node m.
JoinOf(m) == _get_first_common_node(nodes, m).n

\* ------------------------------------------------------------------- C4
\* Every target of m reaches J, and no node that every target reaches comes
\* before J.
BranchesReach(g, m, J) ==
    /\ J # m
    /\ \A t \in Successors(g, m) : J \in ReachableFrom(g, {t})

FirstBranchesReach(g, m, J) ==
    /\ BranchesReach(g, m, J)
    /\ \A K \in DOMAIN g : (K # J /\ BranchesReach(g, m, K)) => J \notin ReachableFrom(g, {K})

\* The first call of transform has ended: it returned or it raised.
Ended == pc \in {"done", "error"} /\ call = 1

\* C4 as claimed: for every diverging node whose branches all reach a common
\* node J, with no earlier common node, _get_first_common_node returns J,
\* also when a branch has a path to a terminal that does not pass through J.
C4_JoinOfReachingBranches ==
    Ended =>
        \A m \in Nodes : Diverging(nodes, m) =>
            \A J \in Nodes : FirstBranchesReach(nodes, m, J) => JoinOf(m) = J

\* What C4 as amended says of node m with resolved join j, P being the
\* nodes on every path from m to a terminal.
JoinIsFirstOnEveryPath(m, j, P0) ==
    LET P == P0 IN
    IF P = {} THEN j = None
    ELSE /\ j \in P
         /\ P \subseteq ReachableFrom(nodes, {j})
         /\ \A J \in P : P \subseteq ReachableFrom(nodes, {J}) => J = j

\* C4 as amended: for every diverging node, _get_first_common_node returns
\* the first node that lies on every path from it to a terminal, whatever
\* the lengths of the paths that lead there, and the absent value when no
\* node lies on every such path; a node that some path to a terminal passes
\* by is never returned.
C4_JoinIsFirstOnEveryPath ==
    Ended =>
        \A m \in Nodes : Diverging(nodes, m) =>
            JoinIsFirstOnEveryPath(m, JoinOf(m), AllOnEveryPath(nodes, m))

\* Two of these depth maps give J different depths.
DepthsDiffer(maps, J) ==
    \E a, b \in 1..Len(maps) :
        /\ J \in DOMAIN maps[a]
        /\ J \in DOMAIN maps[b]
        /\ maps[a][J] # maps[b][J]

\* The top-level call resolved the join of a node whose branches reach it
\* by paths of different lengths, passing another common node by, and
\* resumed from it.
C4_Witness ==
    /\ pc = "loop"
    /\ n \in Nodes
    /\ \E m \in Nodes :
        /\ Diverging(nodes, m)
        /\ JoinOf(m) = n
        /\ DepthsDiffer(_get_node_depths(nodes, m, 0).maps, n)
        /\ \E K \in Nodes : K # n /\ OnEveryPath(nodes, m, K)

\* ------------------------------------------------------------------ C10
\* What C10 says of node m with merged depth map common and resolved join j.
NoDepthTies(m, common, j) ==
    /\ \A x, y \in DOMAIN common : (x # y /\ common[x] # 0) => common[x] # common[y]
    /\ Cardinality(ArgminCandidates(common)) <= 1
    /\ \A k \in DOMAIN common \ {m} : j # None /\ k \in ReachableFrom(nodes, {j})

\* C10: in an acyclic graph, no two nodes common to all terminal paths from
\* a diverging node have the same non-zero merged depth, so at most one key
\* can end the argmin loop whatever the iteration order, and the node chosen
\* comes before every other common node.
C10_NoDepthTies ==
    Ended =>
        \A m \in Nodes : Diverging(nodes, m) =>
            NoDepthTies(m, CommonDepths(nodes, m), JoinOf(m))

\* The top-level call has resumed from the join of a node that has three
\* common nodes or more to choose from.
C10_Witness ==
    /\ pc = "loop"
    /\ \E m \in Nodes :
        /\ Diverging(nodes, m)
        /\ Cardinality(DOMAIN CommonDepths(nodes, m)) >= 3
        /\ JoinOf(m) = n

\* ------------------------------------------------------------------- C7
\* The call under this cache key returns val when the cache is empty.
FreshIs(fresh, val) == fresh.st = "ok" /\ fresh.val = val

\* C7: whatever transform returns, on the first call or from the cache on a
\* later one, is the value a call with an empty cache computes, and so is
\* every list the cache holds for the arguments it is keyed by.
C7_CacheSound ==
    /\ pc = "done" =>
           /\ CacheKey(arg, Omitted) \in DOMAIN cache
           /\ ret = cache[CacheKey(arg, Omitted)]
    /\ (pc = "done" /\ call > 1) => FreshIs(Fresh(nodes, CacheKey(arg, Omitted)), ret)
    /\ Ended => \A key \in DOMAIN cache : FreshIs(Fresh(nodes, key), cache[key])

\* A second call was answered from a cache that also holds the lists of
\* recursive calls.
C7_Witness ==
    /\ pc = "done"
    /\ call = 2
    /\ Cardinality(DOMAIN cache) >= 3
    /\ \E key \in DOMAIN cache : key[1] # Start /\ Len(cache[key].items) >= 2


\* ------------------------------------------------- the turns of a call
\* The turns of the while loop that the call under cache key `key` made, in
\* order, replayed with the cache as the program left it.  A turn is
\* recorded with n, the current node; at, the length of parts when it
\* begins; st, how it ends; next, the n it leaves.
RECURSIVE TurnsFrom(_, _, _)
TurnsAfter(m, stop, sofar, r0) ==
    LET r == r0 IN
    <<[n |-> m, at |-> Len(sofar), st |-> r.st, next |-> r.n]>>
        \o (IF r.st = "continue" THEN TurnsFrom(r.n, stop, r.parts) ELSE <<>>)

TurnsFrom(m, stop, sofar) ==
    TurnsAfter(m, stop, sofar, Turn(nodes, cache, m, stop, sofar))

TurnsOf(key) == TurnsFrom(key[1], StopOf(key), <<Leaf(key[1])>>)

\* Node m has several branch labels ...
IsLabeled(g, m) == Len(g[m]) > 1

\* ... or one label with several targets.
IsFanOut(g, m) == Len(g[m]) = 1 /\ Len(g[m][1].v) > 1

\* P(key, items, turns, i) for every turn i of every call that returned,
\* items being the list the call returned.
EveryTurn(P(_, _, _, _)) ==
    \A key \in DOMAIN cache :
        \A turns \in {TurnsOf(key)} :
            \A i \in 1..Len(turns) : P(key, cache[key].items, turns, i)

SomeTurn(P(_, _, _, _)) ==
    \E key \in DOMAIN cache :
        \E turns \in {TurnsOf(key)} :
            \E i \in 1..Len(turns) : P(key, cache[key].items, turns, i)

Labels(g, m) == [b \in 1..Len(g[m]) |-> g[m][b].k]

Keys(dict) == [b \in 1..Len(dict.items) |-> dict.items[b].k]

\* ------------------------------------------------------------------- C1
\* The turn at a node with several labels whose join j exists: the node's
\* Leaf, the Labeled Branches over all its labels, without j, and j's Leaf
\* stand side by side in the list, and the loop goes on from j.
LabeledThenJoin(key, items, turns, i) ==
    (IsLabeled(nodes, turns[i].n) /\ JoinOf(turns[i].n) # None) =>
        /\ items[turns[i].at] = Leaf(turns[i].n)
        /\ Len(items) >= turns[i].at + 2
        /\ items[turns[i].at + 1].t = "dict"
        /\ Keys(items[turns[i].at + 1]) = Labels(nodes, turns[i].n)
        /\ JoinOf(turns[i].n) \notin LeafSet(items[turns[i].at + 1])
        /\ items[turns[i].at + 2] = Leaf(JoinOf(turns[i].n))
        /\ turns[i].st = "continue"
        /\ turns[i].next = JoinOf(turns[i].n)

\* C1 as claimed: every node with two or more labels whose branches
\* reconverge at j is emitted as a Leaf, immediately followed by the Labeled
\* Branches of its labels up to j, immediately followed by j as a Leaf, from
\* where the same sequence continues.
C1_LabeledThenJoin == Ended => EveryTurn(LabeledThenJoin)

\* The turn at a node with several labels, in a call with boundary stop.
LabeledTurn(key, items, turns, i) ==
    IsLabeled(nodes, turns[i].n) =>
        /\ items[turns[i].at] =
              IF i > 1 /\ IsFanOut(nodes, turns[i - 1].n)
              THEN items[turns[i - 1].at + 1]
              ELSE Leaf(turns[i].n)
        /\ items[turns[i].at].t = IF i > 1 /\ IsFanOut(nodes, turns[i - 1].n) THEN "list" ELSE "str"
        /\ Len(items) >= turns[i].at + 1
        /\ items[turns[i].at + 1].t = "dict"
        /\ IF JoinOf(turns[i].n) \in {None, StopOf(key)}
           THEN /\ Len(items) = turns[i].at + 1
                /\ turns[i].st = "break"
           ELSE /\ Len(items) >= turns[i].at + 2
                /\ items[turns[i].at + 2] = Leaf(JoinOf(turns[i].n))
                /\ turns[i].st = "continue"
                /\ turns[i].next = JoinOf(turns[i].n)

\* C1 as amended: in every call, top-level or recursive with boundary stop,
\* the turn at a node with two or more labels appends one Labeled Branches
\* value, built by calls bounded by the join j.  When j exists and is not stop,
\* j's Leaf follows it immediately and the same sequence continues from j;
\* when j is stop (or absent) the sequence ends with the Labeled Branches
\* value and j is left to the enclosing call.  The value stands right after
\* the node's own Leaf, except when the node was entered as the join of a
\* fan-out under one label, which appends no Leaf for its join: then it
\* stands right after that fan-out's list.
C1_LabeledTurn == Ended => EveryTurn(LabeledTurn)

\* A recursive call met a node with labels whose join is its boundary.
JoinIsStop(key, items, turns, i) ==
    /\ IsLabeled(nodes, turns[i].n)
    /\ StopOf(key) # None
    /\ JoinOf(turns[i].n) = StopOf(key)

\* A call met a node with labels whose join is not its boundary, and went on
\* from the join.
JoinResumes(key, items, turns, i) ==
    /\ IsLabeled(nodes, turns[i].n)
    /\ JoinOf(turns[i].n) \notin {None, StopOf(key)}
    /\ i < Len(turns)

C1_Witness == Ended /\ SomeTurn(JoinIsStop) /\ SomeTurn(JoinResumes)

\* ------------------------------------------------------------------- C9
\* The paths of one label: its targets in order, a target equal to stop left
\* out, a target equal to the join j giving the empty list, any other target
\* the list that the call from it bounded by j returned.
RECURSIVE PathsOfLabel(_, _, _)
PathsOfLabel(v, j, stop) ==
    IF v = <<>> THEN <<>>
    ELSE (IF Head(v) = stop THEN <<>>
          ELSE IF Head(v) = j THEN <<List(<<>>)>>
          ELSE <<cache[CacheKey(Head(v), j)]>>)
         \o PathsOfLabel(Tail(v), j, stop)

\* A label with these paths maps to the lone path or, of several, to the
\* list of them.
EntryOf(k, paths) == [k |-> k, v |-> IF Len(paths) = 1 THEN paths[1] ELSE List(paths)]

\* The labels with at least one target other than stop, in order.
RECURSIVE EntriesOf(_, _, _)
EntriesOf(branches, j, stop) ==
    IF branches = <<>> THEN <<>>
    ELSE (IF \A b \in 1..Len(Head(branches).v) : Head(branches).v[b] = stop
          THEN <<>>
          ELSE <<EntryOf(Head(branches).k, PathsOfLabel(Head(branches).v, j, stop))>>)
         \o EntriesOf(Tail(branches), j, stop)

LabeledBranchesTurn(key, items, turns, i) ==
    IsLabeled(nodes, turns[i].n) =>
        items[turns[i].at + 1] =
            Dict(EntriesOf(nodes[turns[i].n], JoinOf(turns[i].n), StopOf(key)))

\* C9: inside a Labeled Branches mapping built for a node with join j in a
\* call with boundary stop, a target equal to stop contributes nothing, a
\* target equal to j contributes an empty path, a label with exactly one
\* contributed path maps to that path itself, a label with two or more maps
\* to the list of them, and a label is absent exactly when all of its
\* targets equal stop.
C9_LabeledBranches == Ended => EveryTurn(LabeledBranchesTurn)

\* A label of the node at this turn with a target that is the join ...
EmptyPath(key, items, turns, i) ==
    /\ IsLabeled(nodes, turns[i].n)
    /\ \E b \in 1..Len(nodes[turns[i].n]) :
           /\ Len(nodes[turns[i].n][b].v) = 1
           /\ nodes[turns[i].n][b].v[1] = JoinOf(turns[i].n)
           /\ nodes[turns[i].n][b].v[1] # StopOf(key)

\* ... with two paths ...
TwoPaths(key, items, turns, i) ==
    /\ IsLabeled(nodes, turns[i].n)
    /\ \E b \in 1..Len(nodes[turns[i].n]) :
           Len(PathsOfLabel(nodes[turns[i].n][b].v,
                            JoinOf(turns[i].n), StopOf(key))) = 2

\* ... with a target that is stop, beside another that is not ...
SkippedTarget(key, items, turns, i) ==
    /\ IsLabeled(nodes, turns[i].n)
    /\ \E b \in 1..Len(nodes[turns[i].n]) :
           /\ Len(nodes[turns[i].n][b].v) = 2
           /\ Len(PathsOfLabel(nodes[turns[i].n][b].v,
                               JoinOf(turns[i].n), StopOf(key))) = 1

\* ... and with all its targets stop.
AbsentLabel(key, items, turns, i) ==
    /\ IsLabeled(nodes, turns[i].n)
    /\ Len(items[turns[i].at + 1].items) < Len(nodes[turns[i].n])

C9_Witness ==
    /\ Ended
    /\ SomeTurn(EmptyPath)
    /\ SomeTurn(TwoPaths)
    /\ SomeTurn(SkippedTarget)
    /\ SomeTurn(AbsentLabel)

\* ------------------------------------------------------------------- C2
FanOutThenJoin(key, items, turns, i) ==
    (/\ IsFanOut(nodes, turns[i].n)
     /\ JoinOf(turns[i].n) \notin {None, StopOf(key)}) =>
        /\ items[turns[i].at + 1].t = "list"
        /\ JoinOf(turns[i].n) \notin LeafSet(items[turns[i].at + 1])
        /\ Len(items) >= turns[i].at + 2
        /\ items[turns[i].at + 2] = Leaf(JoinOf(turns[i].n))

\* C2: a node with one branch label and two or more targets whose branches
\* reconverge at j is followed by a list of sub-sequences, each bounded by
\* j, and that list is followed in the same sequence by j as a Leaf.
C2_FanOutThenJoin == Ended => EveryTurn(FanOutThenJoin)

\* ------------------------------------------------------------------- C3
\* The targets of node m, with their positions.
Targets(g, m) == get_next_nodes_flat(g[m])

\* The first node on every path from m to a terminal, None without one.
FirstOnEveryPath(g, m) ==
    IF AllOnEveryPath(g, m) = {} THEN None
    ELSE CHOOSE x \in AllOnEveryPath(g, m) :
             \A y \in AllOnEveryPath(g, m) \ {x} : y \in ReachableFrom(g, {x})

\* Every divergence is a simple diamond: two branches of a diverging node
\* share no node before the join of that node, and none at all without one.
SimpleDiamondsOnly(g) ==
    \A m \in DOMAIN g :
        Diverging(g, m) =>
            \A a, b \in 1..Len(Targets(g, m)) :
                a # b =>
                    (ReachableFrom(g, {Targets(g, m)[a]})
                        \cap ReachableFrom(g, {Targets(g, m)[b]}))
                    \subseteq (IF FirstOnEveryPath(g, m) = None THEN {}
                               ELSE ReachableFrom(g, {FirstOnEveryPath(g, m)}))

\* The leaves of val are the nodes of S, once each.
ExactlyOnce(val, S) ==
    /\ LeafSet(val) = S
    /\ Len(LeavesOf(val)) = Cardinality(S)

\* C3: on an acyclic graph whose divergences are all simple diamonds, the
\* Leaves of the returned value are the nodes reachable from the start node,
\* each exactly once.
C3_LeafCoverage ==
    (pc = "done" /\ SimpleDiamondsOnly(nodes)) =>
        ExactlyOnce(ret, ReachableFrom(nodes, {Start}))

\* ------------------------------------------------------------------- C5
\* The branches of diverging node m end apart: no two share a node.
NeverReconverge(g, m) ==
    /\ Diverging(g, m)
    /\ \A a, b \in 1..Len(Targets(g, m)) :
           a # b =>
               ReachableFrom(g, {Targets(g, m)[a]})
                   \cap ReachableFrom(g, {Targets(g, m)[b]}) = {}

\* The structure of the branches of the node at this turn ends the list.
NothingFollows(key, items, turns, i) ==
    NeverReconverge(nodes, turns[i].n) => Len(items) = turns[i].at + 1

\* C5: when the branches of a diverging node, under several labels or under
\* one, never reconverge, the resolver returns absent, transform returns
\* normally, and nothing follows the branch structure in its sequence.
C5_NoJoinTerminates ==
    (Ended /\ \E m \in Nodes : NeverReconverge(nodes, m)) =>
        /\ \A m \in Nodes : NeverReconverge(nodes, m) => JoinOf(m) = None
        /\ pc = "done"
        /\ EveryTurn(NothingFollows)

\* ------------------------------------------------------------------- C8
\* C8: the value of a call with boundary stop holds Leaves only for nodes
\* reachable from its start node without passing through stop, and none for
\* stop itself.
C8_StopExcluded ==
    Ended =>
        \A key \in DOMAIN cache :
            StopOf(key) # None =>
                LeafSet(cache[key]) \subseteq
                    ReachableAvoiding(nodes, key[1], StopOf(key)) \ {StopOf(key)}

\* ------------------------------------------------------------------- C6
\* A cycle can be reached from the start node.
Cyclic(g) ==
    \E m \in ReachableFrom(g, {Start}) :
        m \in ReachableFrom(g, Successors(g, m))

\* The loop is in a turn at a node with one successor.
LinearTurn == pc = "loop" /\ n \in Nodes /\ Len(get_next_nodes_flat(nodes[n])) = 1

\* C6: on a graph with a cycle reachable from the start node, transform
\* eventually stops in the fatal error state: it neither runs forever nor
\* returns a value.  Stated for the turns whose completion is assumed: the
\* call does not stay forever in turns at nodes with one successor.
C6_CycleDetected == (Cyclic(nodes) /\ pc = "loop") ~> (pc = "error" \/ ~LinearTurn)

====
